---- MODULE Spec2Model ----
(***************************************************************************)
(* A model of blackswan-mini's AIOTrader (src/src/trader.py), its          *)
(* TertiaryModel (src/src/model.py) and the helpers of src/src/util.py.    *)
(*                                                                         *)
(* Time is counted in minutes (one bar per minute), prices in dollars.     *)
(* A Python exception is a value [exc |-> "<its type>"] or, for the main   *)
(* thread, the position pc = "raised" with the type in error.              *)
(***************************************************************************)
EXTENDS Integers, Sequences, FiniteSets, TLC

\* ------------------------------------------------------------------ bounds
\* candles per symbol in one REST response
MaxCandles == 2
\* candles per symbol in the responses the backtest specification starts from
MaxHistory == 4
\* bar callbacks delivered by the data stream
MaxStream == 1
\* bar callbacks delivered where _on_bar is followed statement by statement
MaxCallbacks == 2
\* longest sleep until the market opens, in minutes
MaxSleep == 1
\* rows feature_engineer drops for want of a full indicator window (49 in the
\* source, SMA_50; scaled down so that small tables have engineered rows)
WarmupRows == 1

\* ------------------------------------------------------- program constants
starting_balance == 10000
\* MIN_ROI = 1.03, as a percentage
MIN_ROI_PCT == 103
\* n_neighbors of the KNeighborsRegressor
n_neighbors == 3
\* seconds before the close at which the wait loop ends
CloseWindow == 300

\* self.symbols, in the order the constructor was given them (alphabetical
\* here, so that the order of the list is the order of the names)
Symbols == <<"A", "B">>
SymbolSet == {Symbols[i] : i \in 1..Len(Symbols)}
SymIdx(s) == CHOOSE i \in 1..Len(Symbols) : Symbols[i] = s

\* the candles a vendor can send: open, high, low, close, volume
Down == [open |-> 400, high |-> 400, low |-> 100, close |-> 100, volume |-> 3]
Up == [open |-> 100, high |-> 400, low |-> 100, close |-> 400, volume |-> 5]
Spike == [open |-> 400, high |-> 500, low |-> 400, close |-> 500, volume |-> 7]
BarValues == {Down, Up, Spike}
Closes == {v.close : v \in BarValues}

SeqsUpTo(S, n) == UNION {[1..k -> S] : k \in 1..n}

\* one row of the rolling table: the index (timestamp, symbol) and the columns
MkRow(ts, s, v) ==
  [timestamp |-> ts, symbol |-> s, open |-> v.open, high |-> v.high,
   low |-> v.low, close |-> v.close, volume |-> v.volume]

NoExc == [exc |-> "none"]
Raise(e) == [exc |-> e]

\* ------------------------------------------------------------- util.py
\* What finnhub answers for one symbol: a request that fails, a body whose
\* status is not "ok", or gap-free minute candles ending at the current minute.
Responses(n) ==
  [SymbolSet -> {[s |-> "error"], [s |-> "no_data"]}
                \cup {[s |-> "ok", candles |-> c] : c \in SeqsUpTo(BarValues, n)}]

\* resample_stock_data(df, "1T") on gap-free minute candles: every candle is
\* its own bin, and .iloc[1:] cuts the first one off
resample_stock_data(df) == SubSeq(df, 2, Len(df))

\* the body of the try block for one symbol: the frame of its candles, indexed
\* by (timestamp, symbol)
SymbolFrame(s, r, t, fill_empty) ==
  LET n == Len(r.candles)
      df == [k \in 1..n |-> MkRow(t - n + k, s, r.candles[k])]
  IN IF fill_empty THEN resample_stock_data(df) ELSE df

RowBefore(a, b) ==
  \/ a.timestamp < b.timestamp
  \/ a.timestamp = b.timestamp /\ SymIdx(a.symbol) < SymIdx(b.symbol)

RECURSIVE InsertRow(_, _)
InsertRow(r, sorted) ==
  IF sorted = <<>> THEN <<r>>
  ELSE IF RowBefore(r, Head(sorted)) THEN <<r>> \o sorted
  ELSE <<Head(sorted)>> \o InsertRow(r, Tail(sorted))

\* total.sort_index(level="timestamp"): by timestamp, then by symbol
RECURSIVE sort_index(_)
sort_index(rows) ==
  IF rows = <<>> THEN <<>> ELSE InsertRow(Head(rows), sort_index(Tail(rows)))

\* (a variant that skips a symbol whose request fails and returns the rest)
RECURSIVE DownloadFrom_SkipFailed(_, _, _, _, _, _)
DownloadFrom_SkipFailed(symbols, i, total, resp, t, fill_empty) ==
  IF i > Len(symbols) THEN [exc |-> "none", total |-> sort_index(total)]
  ELSE IF resp[symbols[i]].s # "ok"
  THEN DownloadFrom_SkipFailed(symbols, i + 1, total, resp, t, fill_empty)
  ELSE DownloadFrom_SkipFailed(symbols, i + 1,
                    total \o SymbolFrame(symbols[i], resp[symbols[i]], t, fill_empty),
                    resp, t, fill_empty)

\* the loop over the symbols, from the i-th on, with the frames concatenated
\* so far: a failure for any symbol is logged and raised again
RECURSIVE DownloadFrom(_, _, _, _, _, _)
DownloadFrom(symbols, i, total, resp, t, fill_empty) ==
  IF i > Len(symbols) THEN [exc |-> "none", total |-> sort_index(total)]
  ELSE IF resp[symbols[i]].s # "ok" THEN [exc |-> "ValueError", total |-> <<>>]
  ELSE DownloadFrom(symbols, i + 1,
                    total \o SymbolFrame(symbols[i], resp[symbols[i]], t, fill_empty),
                    resp, t, fill_empty)

download_stock_data(symbols, resp, t, fill_empty) ==
  DownloadFrom(symbols, 1, <<>>, resp, t, fill_empty)

\* get_bars_for_symbol on the multi-indexed table: the rows of the symbol, in
\* table order; .loc raises KeyError when the symbol has no row
RECURSIVE SelectSymbol(_, _)
SelectSymbol(bars, symbol) ==
  IF bars = <<>> THEN <<>>
  ELSE (IF Head(bars).symbol = symbol THEN <<Head(bars)>> ELSE <<>>)
       \o SelectSymbol(Tail(bars), symbol)

get_bars_for_symbol(bars, symbol) ==
  LET sel == SelectSymbol(bars, symbol)
  IN IF sel = <<>> THEN [exc |-> "KeyError", bars |-> <<>>]
     ELSE [exc |-> "none", bars |-> sel]

\* ------------------------------------------------------------- model.py
\* A data frame of feature rows: cols names its column set, "X" for the bar
\* columns and the indicators, "Xy" for those and the y column.
Frame(cols, rows) == [cols |-> cols, rows |-> rows]

FeatureRow(r) ==
  [timestamp |-> r.timestamp, open |-> r.open, high |-> r.high, low |-> r.low,
   close |-> r.close, volume |-> r.volume]

\* feature_engineer: the indicator columns are added and dropna drops the rows
\* that lack a full window, the first WarmupRows of the symbol
feature_engineer(bars) ==
  Frame("X", [k \in 1..(IF Len(bars) > WarmupRows THEN Len(bars) - WarmupRows ELSE 0)
                |-> FeatureRow(bars[k + WarmupRows])])

\* compute_y: y is 1 where the previous close is above this close, else -1
\* (the first row compares with NaN and gets -1); dropna drops nothing
compute_y(engineered) ==
  Frame("Xy",
        [k \in 1..Len(engineered.rows) |->
           [timestamp |-> engineered.rows[k].timestamp,
            open |-> engineered.rows[k].open, high |-> engineered.rows[k].high,
            low |-> engineered.rows[k].low, close |-> engineered.rows[k].close,
            volume |-> engineered.rows[k].volume,
            y |-> IF k > 1 /\ engineered.rows[k - 1].close > engineered.rows[k].close
                  THEN 1 ELSE -1]])

\* row.to_frame().T: the one-row frame of a row, with the frame's columns
RowFrame(cols, row) == Frame(cols, <<row>>)

\* A KNeighborsRegressor: unfitted, or fitted on a column set. Its prediction
\* is the mean of the targets of the n_neighbors nearest training rows: sum is
\* that mean times n_neighbors, by the close of the query row.
Unfitted == [fit |-> "none", sum |-> <<>>]
\* (the targets are the y of compute_y, 1 or -1, so a sum is odd)
KnnRules ==
  {[c \in Closes |-> IF c = 100 THEN 3 ELSE IF c = 400 THEN 1 ELSE -3]}
Fitted(cols, rule) == [fit |-> cols, sum |-> rule]

\* knn_model.predict(latest): NotFittedError before fit, ValueError for no row
\* or for a column set other than the one fitted on, else a one-element array
KnnPredict(knn, latest) ==
  IF knn.fit = "none" THEN Raise("NotFittedError")
  ELSE IF latest.rows = <<>> THEN Raise("ValueError")
  ELSE IF latest.cols # knn.fit THEN Raise("ValueError")
  ELSE [exc |-> "none", type |-> "ndarray", sum |-> knn.sum[latest.rows[1].close]]

Tail1(rows) == IF rows = <<>> THEN <<>> ELSE <<rows[Len(rows)]>>

\* make_decision: the prediction for the latest row, returned as it is
make_decision(knn, frame) == KnnPredict(knn, Frame(frame.cols, Tail1(frame.rows)))

\* decision == v in Python: the one element of the array compared with v
DecisionIs(decision, v) == decision.sum = v * n_neighbors

\* Python values, with their type; a time is its minutes since midnight UTC
PyBool(b) == [type |-> "bool", v |-> b]
PyTime(h, m) == [type |-> "time", v |-> h * 60 + m]
TypeError == [type |-> "TypeError"]

\* ------------------------------------------------------------ trader.py
VARIABLES
  now,                  \* the wall clock, in minutes
  pc,                   \* where the main thread is
  error,                \* the exception that ended the main thread, or "none"
  fetched,              \* the symbols the last download was answered for
  rolling_bars,         \* self.rolling_bars, a sequence of rows
  filled_rolling_bars,  \* self.filled_rolling_bars
  subscribed,           \* handlers subscribed on the vendor clients
  trading,              \* self.trading
  models,               \* self.models, the regressor of each symbol
  start_time, end_time, \* self.start_time, self.end_time
  threads,              \* the Thread objects start() created
  running,              \* the names of the threads that have not returned
  mpc,                  \* where the account monitor loop is
  polls_after_end,      \* get_account calls of the monitor since end_time was set
  stops,                \* calls of stop()
  orders,               \* orders submitted to the broker and not cancelled
  callbacks,            \* _on_bar callbacks completed
  last_cb,              \* what the last _on_bar callback did
  cb,                   \* the locals of the _on_bar callback under way
  bt,                   \* the locals of backtest()
  bt_log,               \* per symbol, the decisions the last backtest took
  t_in, open_result,    \* market_open_at_time: its argument and what it did
  clk                   \* what the broker clock last said to start()

vars == <<now, pc, error, fetched, rolling_bars, filled_rolling_bars, subscribed,
          trading, models, start_time, end_time, threads, running, mpc,
          polls_after_end, stops, orders, callbacks, last_cb, cb, bt, bt_log,
          t_in, open_result, clk>>

\* a datetime attribute: None, or the minute it was set at
None == [set |-> FALSE]
At(t) == [set |-> TRUE, at |-> t]
\* the loop variable row of backtest() before any row was bound to it
NoRow == [bound |-> FALSE]
NoCallback == [outcome |-> "none"]
\* no _on_bar callback is under way
NoBar == [active |-> FALSE]
NoBacktest ==
  [i |-> 0, phase |-> "idle", cols |-> "none", rows |-> <<>>, row |-> NoRow,
   running_balance |-> 0, holding_balance |-> 0, holding_shares |-> 0]
NoLog == [s \in SymbolSet |-> [done |-> FALSE, steps |-> <<>>, balance |-> 0]]

marketVars == <<t_in, open_result, clk>>
threadVars == <<threads, running, mpc, polls_after_end>>
tableVars == <<fetched, rolling_bars, filled_rolling_bars>>
streamVars == <<orders, callbacks, last_cb, cb>>
backtestVars == <<bt, bt_log, trading>>

\* before AIOTrader(symbols) is called
Init ==
  /\ now = 0 /\ pc = "new" /\ error = "none"
  /\ fetched = {} /\ rolling_bars = <<>> /\ filled_rolling_bars = FALSE
  /\ subscribed = {} /\ trading = <<>> /\ models = <<>>
  /\ start_time = None /\ end_time = None
  /\ threads = {} /\ running = {} /\ mpc = "none" /\ polls_after_end = 0
  /\ stops = 0 /\ orders = {} /\ callbacks = 0 /\ last_cb = NoCallback
  /\ cb = NoBar
  /\ bt = NoBacktest /\ bt_log = NoLog
  /\ t_in = PyTime(0, 0) /\ open_result = [called |-> FALSE]
  /\ clk = "unread"

\* the symbols finnhub answered with candles
FetchedBy(resp) == {s \in SymbolSet : resp[s].s = "ok"}

\* _fill_rolling_bars: the table is replaced by a fresh download of the last
\* five days, unless the download raises
fill_rolling_bars(resp, t) == download_stock_data(Symbols, resp, t, TRUE)

\* AIOTrader.__init__: the backfill, then the flags, the models and the
\* subscriptions; an exception of the backfill ends the constructor
Construct ==
  /\ pc = "new"
  /\ \E resp \in Responses(MaxCandles) :
       LET dl == fill_rolling_bars(resp, now)
       IN /\ fetched' = FetchedBy(resp)
          /\ IF dl.exc # "none"
             THEN /\ pc' = "raised" /\ error' = dl.exc
                  /\ UNCHANGED <<rolling_bars, filled_rolling_bars, subscribed,
                                 trading, models>>
             ELSE /\ pc' = "ready" /\ error' = "none"
                  /\ rolling_bars' = dl.total
                  /\ filled_rolling_bars' = TRUE
                  /\ trading' = [s \in SymbolSet |-> FALSE]
                  /\ models' = [s \in SymbolSet |-> Unfitted]
                  /\ subscribed' = {"trade_updates"} \cup SymbolSet
  /\ UNCHANGED <<now, start_time, end_time, threadVars, stops, streamVars,
                 bt, bt_log, marketVars>>

\* models[s].train(X_and_y): the regressor is fitted on the columns without y
Train(s) ==
  /\ pc = "ready"
  /\ \E rule \in KnnRules : models' = [models EXCEPT ![s] = Fitted("X", rule)]
  /\ UNCHANGED <<now, pc, error, tableVars, subscribed, trading, start_time,
                 end_time, threadVars, stops, streamVars, bt, bt_log, marketVars>>

\* models[s] = TertiaryModel.load(path): a model saved earlier, fitted on
\* whatever columns it was given
Load(s) ==
  /\ pc = "ready"
  /\ \E cols \in {"X", "Xy"}, rule \in KnnRules :
       models' = [models EXCEPT ![s] = Fitted(cols, rule)]
  /\ UNCHANGED <<now, pc, error, tableVars, subscribed, trading, start_time,
                 end_time, threadVars, stops, streamVars, bt, bt_log, marketVars>>

\* ---------------------------------------------------------------- start()
DataThread == "alpaca_data_client_thread"
TradeThread == "trading_stream_thread"
MonitorThread == "account_monitor_thread"

\* the broker clock says whether the market is open
StartClock ==
  /\ pc = "ready"
  /\ \E is_open \in BOOLEAN :
       /\ clk' = IF is_open THEN "open" ELSE "closed"
       /\ pc' = IF is_open THEN "spawn" ELSE "sleep"
  /\ UNCHANGED <<now, error, tableVars, subscribed, models, start_time, end_time,
                 threadVars, stops, streamVars, backtestVars, t_in, open_result>>

\* (a variant that starts the threads right after the sleep)
Sleep_NoRefill ==
  /\ pc = "sleep"
  /\ \E d \in 1..MaxSleep : now' = now + d
  /\ pc' = "spawn"
  /\ UNCHANGED <<error, tableVars, subscribed, models, start_time, end_time,
                 threadVars, stops, streamVars, backtestVars, marketVars>>

\* time.sleep(next_open - timestamp)
Sleep ==
  /\ pc = "sleep"
  /\ \E d \in 1..MaxSleep : now' = now + d
  /\ pc' = "refill"
  /\ UNCHANGED <<error, tableVars, subscribed, models, start_time, end_time,
                 threadVars, stops, streamVars, backtestVars, marketVars>>

\* "Refilling rolling bars": _fill_rolling_bars() again
Refill ==
  /\ pc = "refill"
  /\ \E resp \in Responses(MaxCandles) :
       LET dl == fill_rolling_bars(resp, now)
       IN /\ fetched' = FetchedBy(resp)
          /\ IF dl.exc # "none"
             THEN /\ pc' = "raised" /\ error' = dl.exc
                  /\ UNCHANGED <<rolling_bars, filled_rolling_bars>>
             ELSE /\ pc' = "spawn" /\ error' = "none"
                  /\ rolling_bars' = dl.total
                  /\ filled_rolling_bars' = TRUE
  /\ UNCHANGED <<now, subscribed, models, start_time, end_time, threadVars, stops,
                 streamVars, backtestVars, marketVars>>

\* (a variant whose third thread runs something else)
StartedThreads_NoMonitor ==
  {[name |-> "alpaca_data_client_thread", target |-> "alpaca_data_client.run"],
   [name |-> "trading_stream_thread", target |-> "trading_stream.run"],
   [name |-> "account_monitor_thread", target |-> "trading_client.get_account"]}

\* the Thread objects of start(), each with its target
StartedThreads ==
  {[name |-> DataThread, target |-> "alpaca_data_client.run"],
   [name |-> TradeThread, target |-> "trading_stream.run"],
   [name |-> MonitorThread, target |-> "_account_monitor"]}

\* start_time is set and the threads are started; backtest() is entered
Spawn ==
  /\ pc = "spawn"
  /\ start_time' = At(now)
  /\ threads' = StartedThreads
  /\ running' = {t.name : t \in StartedThreads}
  /\ mpc' = "test"
  /\ pc' = "backtest"
  /\ bt' = [NoBacktest EXCEPT !.i = 1, !.phase = "symbol"]
  /\ UNCHANGED <<now, error, tableVars, subscribed, models, end_time,
                 polls_after_end, stops, streamVars, bt_log, trading, marketVars>>

\* -------------------------------------------------------------- _on_bar
\* the bars the data stream can deliver: any subscribed symbol, the current
\* minute (which the backfill may hold already) or the next
StreamBars ==
  {MkRow(ts, s, v) : ts \in {now, now + 1}, s \in SymbolSet, v \in BarValues}

\* (a variant with the open and close columns swapped)
LatestBar_Swapped(b) ==
  [timestamp |-> b.timestamp, symbol |-> b.symbol, open |-> b.close,
   high |-> b.high, low |-> b.low, close |-> b.open, volume |-> b.volume]

\* latest_bar: the one-row frame of b, indexed by (timestamp, symbol), with
\* the columns open, high, low, close, volume
LatestBar(b) ==
  [timestamp |-> b.timestamp, symbol |-> b.symbol, open |-> b.open,
   high |-> b.high, low |-> b.low, close |-> b.close, volume |-> b.volume]

\* (a variant that keeps only the latest bar)
Concat_KeepLatest(table, b) == <<LatestBar(b)>>

\* (a variant that replaces a row of the same timestamp and symbol)
Concat_ReplaceKey(table, b) ==
  SelectSeq(table, LAMBDA r : ~(r.timestamp = b.timestamp /\ r.symbol = b.symbol))
    \o <<LatestBar(b)>>

\* pd.concat([self.rolling_bars, latest_bar])
Concat(table, b) == Append(table, LatestBar(b))

\* SIDE_CONVERTER[decision]: a dict lookup hashes its key, and an ndarray is
\* unhashable
SIDE_CONVERTER(decision) ==
  IF decision.type = "ndarray" THEN [exc |-> "TypeError", side |-> "none"]
  ELSE IF decision.sum = n_neighbors THEN [exc |-> "none", side |-> "buy"]
  ELSE IF decision.sum = -n_neighbors THEN [exc |-> "none", side |-> "sell"]
  ELSE [exc |-> "KeyError", side |-> "none"]

\* (a variant whose order path works: a limit order for every bar of a symbol
\* whose trading is enabled)
OnBarRest_OrderPathWorks(table, b) ==
  IF ~trading[b.symbol]
  THEN [outcome |-> "skipped", b |-> b, decision |-> NoExc, exc |-> "none",
        order |-> {}]
  ELSE [outcome |-> "order", b |-> b, decision |-> NoExc, exc |-> "none",
        order |-> {[symbol |-> b.symbol, limit_price |-> b.close, qty |-> 1,
                    side |-> "buy", id |-> callbacks + 1]}]

\* (a variant without the check of the trading flag)
OnBarRest_NoFlagCheck(table, b) ==
  LET engineered == feature_engineer(get_bars_for_symbol(table, b.symbol).bars)
      decision == make_decision(models[b.symbol], engineered)
  IN IF decision.exc # "none"
     THEN [outcome |-> "raised", b |-> b, decision |-> decision,
           exc |-> decision.exc, order |-> {}]
     ELSE IF DecisionIs(decision, 0)
     THEN [outcome |-> "hold", b |-> b, decision |-> decision, exc |-> "none",
           order |-> {}]
     ELSE IF SIDE_CONVERTER(decision).exc # "none"
     THEN [outcome |-> "raised", b |-> b, decision |-> decision,
           exc |-> SIDE_CONVERTER(decision).exc, order |-> {}]
     ELSE [outcome |-> "order", b |-> b, decision |-> decision, exc |-> "none",
           order |-> {[symbol |-> b.symbol, limit_price |-> b.close, qty |-> 1,
                       side |-> SIDE_CONVERTER(decision).side,
                       id |-> callbacks + 1]}]

\* _on_bar after the bar is appended: the trading flag, the indicators, the
\* decision and the limit order
OnBarRest(table, b) ==
  IF ~trading[b.symbol]
  THEN [outcome |-> "skipped", b |-> b, decision |-> NoExc, exc |-> "none",
        order |-> {}]
  ELSE
    LET engineered == feature_engineer(get_bars_for_symbol(table, b.symbol).bars)
        decision == make_decision(models[b.symbol], engineered)
    IN IF decision.exc # "none"
       THEN [outcome |-> "raised", b |-> b, decision |-> decision,
             exc |-> decision.exc, order |-> {}]
       ELSE IF DecisionIs(decision, 0)
       THEN [outcome |-> "hold", b |-> b, decision |-> decision, exc |-> "none",
             order |-> {}]
       ELSE IF SIDE_CONVERTER(decision).exc # "none"
       THEN [outcome |-> "raised", b |-> b, decision |-> decision,
             exc |-> SIDE_CONVERTER(decision).exc, order |-> {}]
       ELSE [outcome |-> "order", b |-> b, decision |-> decision, exc |-> "none",
             order |-> {[symbol |-> b.symbol, limit_price |-> b.close, qty |-> 1,
                         side |-> SIDE_CONVERTER(decision).side,
                         id |-> callbacks + 1]}]

\* one callback of the data stream, on its thread, while fewer than limit have
\* been delivered; the vendor's loop logs an exception of the handler and goes
\* on. stopping records whether stop() had set end_time when the bar arrived.
OnBarUpTo(limit) ==
  /\ DataThread \in running
  /\ cb = NoBar
  /\ callbacks < limit
  /\ \E b \in StreamBars :
       /\ b.symbol \in subscribed
       /\ rolling_bars' = Concat(rolling_bars, b)
       /\ last_cb' = OnBarRest(rolling_bars', b) @@ [stopping |-> end_time # None]
       /\ orders' = orders \cup last_cb'.order
  /\ callbacks' = callbacks + 1
  /\ UNCHANGED <<now, pc, error, fetched, filled_rolling_bars, subscribed, models,
                 start_time, end_time, threadVars, stops, backtestVars, marketVars,
                 cb>>

OnBar == OnBarUpTo(MaxStream)

\* _on_bar statement by statement. First latest_bar is built and the right
\* side of line 110 is evaluated: the table is read and concatenated into a
\* new frame, which the callback holds.
OnBarRead ==
  /\ DataThread \in running
  /\ cb = NoBar
  /\ callbacks < MaxCallbacks
  /\ \E b \in StreamBars :
       /\ b.symbol \in subscribed
       /\ cb' = [active |-> TRUE, b |-> b, concat |-> Concat(rolling_bars, b)]
  /\ UNCHANGED <<now, pc, error, tableVars, subscribed, models, start_time,
                 end_time, threadVars, stops, orders, callbacks, last_cb,
                 backtestVars, marketVars>>

\* then the new frame is bound to self.rolling_bars, and the rest of the
\* callback runs; callbacks are coroutines of one event loop without an await
\* inside, so the next one starts only when this one has returned
OnBarWrite ==
  /\ DataThread \in running
  /\ cb # NoBar
  /\ rolling_bars' = cb.concat
  /\ last_cb' = OnBarRest(rolling_bars', cb.b) @@ [stopping |-> end_time # None]
  /\ orders' = orders \cup last_cb'.order
  /\ callbacks' = callbacks + 1
  /\ cb' = NoBar
  /\ UNCHANGED <<now, pc, error, fetched, filled_rolling_bars, subscribed, models,
                 start_time, end_time, threadVars, stops, backtestVars, marketVars>>

\* ------------------------------------------------------------- backtest()
\* (a variant with >= for >)
RoiAboveMin_OrEqual(running_balance) ==
  100 * (starting_balance + (running_balance - starting_balance))
    >= MIN_ROI_PCT * starting_balance

\* roi = 1 + (running_balance - starting_balance) / starting_balance, and
\* roi > MIN_ROI, in exact arithmetic
RoiAboveMin(running_balance) ==
  100 * (starting_balance + (running_balance - starting_balance))
    > MIN_ROI_PCT * starting_balance

\* steps 0 to 2 for the next symbol: the balances, the symbol's bars, the
\* features and y (the assert is the first statement of backtest())
BacktestSymbol ==
  /\ pc = "backtest" /\ bt.phase = "symbol"
  /\ LET symbol == Symbols[bt.i]
         got == get_bars_for_symbol(rolling_bars, symbol)
         with_y == compute_y(feature_engineer(got.bars))
     IN IF ~filled_rolling_bars \/ got.exc # "none"
        THEN /\ pc' = "raised"
             /\ error' = IF ~filled_rolling_bars THEN "AssertionError" ELSE got.exc
             /\ UNCHANGED <<bt, bt_log>>
        ELSE /\ bt' = [bt EXCEPT !.phase = "rows", !.cols = with_y.cols,
                                 !.rows = with_y.rows,
                                 !.running_balance = starting_balance,
                                 !.holding_balance = starting_balance,
                                 !.holding_shares = 0]
             /\ bt_log' = [bt_log EXCEPT ![symbol] =
                             [done |-> FALSE, steps |-> <<>>, balance |-> 0]]
             /\ UNCHANGED <<pc, error>>
  /\ UNCHANGED <<now, tableVars, subscribed, trading, models, start_time, end_time,
                 threadVars, stops, streamVars, marketVars>>

\* (a variant that trades at the open of the bar)
ApplyDecision_AtOpen(b, decision, row) ==
  IF decision.sum = n_neighbors
  THEN [b EXCEPT !.running_balance = @ - row.open, !.holding_shares = @ + 1]
  ELSE IF decision.sum = -n_neighbors
  THEN [b EXCEPT !.running_balance = @ + row.open, !.holding_shares = @ - 1]
  ELSE b

\* step 5: the decision applied to the running balance and the shares held
ApplyDecision(b, decision, row) ==
  IF DecisionIs(decision, 1)
  THEN [b EXCEPT !.running_balance = @ - row.close, !.holding_shares = @ + 1]
  ELSE IF DecisionIs(decision, -1)
  THEN [b EXCEPT !.running_balance = @ + row.close, !.holding_shares = @ - 1]
  ELSE b

\* steps 3 to 5 for the next row of with_y
BacktestRow ==
  /\ pc = "backtest" /\ bt.phase = "rows" /\ bt.rows # <<>>
  /\ LET symbol == Symbols[bt.i]
         row == Head(bt.rows)
         decision == make_decision(models[symbol], RowFrame(bt.cols, row))
     IN IF decision.exc # "none"
        THEN /\ pc' = "raised" /\ error' = decision.exc
             /\ bt' = [bt EXCEPT !.row = row, !.rows = Tail(@)]
             /\ UNCHANGED bt_log
        ELSE /\ bt' = [ApplyDecision(bt, decision, row) EXCEPT
                         !.row = row, !.rows = Tail(@),
                         !.holding_balance =
                            ApplyDecision(bt, decision, row).holding_shares * row.close]
             /\ bt_log' = [bt_log EXCEPT ![symbol].steps =
                             Append(@, [decision |-> decision, close |-> row.close])]
             /\ UNCHANGED <<pc, error>>
  /\ UNCHANGED <<now, tableVars, subscribed, trading, models, start_time, end_time,
                 threadVars, stops, streamVars, marketVars>>

\* step 6 once the rows are exhausted: the final rebalance at the close of
\* row, the roi and the trading flag; row is unbound when no symbol so far had
\* a row, and is the previous symbol's last row when only this one had none
BacktestAssess ==
  /\ pc = "backtest" /\ bt.phase = "rows" /\ bt.rows = <<>>
  /\ LET symbol == Symbols[bt.i]
         final == bt.running_balance + bt.holding_shares * bt.row.close
     IN IF bt.row = NoRow
        THEN /\ pc' = "raised" /\ error' = "UnboundLocalError"
             /\ UNCHANGED <<bt, bt_log, trading>>
        ELSE /\ trading' = [trading EXCEPT ![symbol] = RoiAboveMin(final)]
             /\ bt_log' = [bt_log EXCEPT ![symbol].done = TRUE,
                                         ![symbol].balance = final]
             /\ bt' = [bt EXCEPT !.running_balance = final,
                                 !.phase = IF bt.i = Len(Symbols) THEN "idle"
                                           ELSE "symbol",
                                 !.i = IF bt.i = Len(Symbols) THEN @ ELSE @ + 1]
             /\ pc' = IF bt.i = Len(Symbols) THEN "wait" ELSE pc
             /\ UNCHANGED error
  /\ UNCHANGED <<now, tableVars, subscribed, models, start_time, end_time,
                 threadVars, stops, streamVars, marketVars>>

\* ------------------------------------------------- the wait loop and stop()
\* _close_to_market_close(), given the seconds from the broker clock's
\* timestamp to its next_close
close_to_market_close(seconds) == seconds < CloseWindow

\* what the clock can say, around the threshold
SecondsToClose == {CloseWindow - 1, CloseWindow, CloseWindow + 1}

\* one turn of while not self._close_to_market_close(): time.sleep(60). A
\* KeyboardInterrupt during the sleep is caught and breaks the loop; one that
\* arrives while the clock is read is not caught and ends start().
WaitLoop ==
  /\ pc = "wait"
  /\ \E seconds \in SecondsToClose, interrupt \in {"none", "in_sleep", "in_clock"} :
       IF interrupt = "in_clock"
       THEN pc' = "raised" /\ error' = "KeyboardInterrupt"
       ELSE /\ pc' = IF close_to_market_close(seconds) \/ interrupt = "in_sleep"
                     THEN "stop" ELSE "wait"
            /\ UNCHANGED error
  /\ UNCHANGED <<now, tableVars, subscribed, models, start_time, end_time,
                 threadVars, stops, streamVars, backtestVars, marketVars>>

\* (a variant that leaves end_time as it is)
StopCancel_NoEndTime ==
  /\ pc = "stop"
  /\ end_time' = end_time
  /\ stops' = stops + 1
  /\ orders' = {}
  /\ pc' = "stop_clients"
  /\ UNCHANGED <<now, error, tableVars, subscribed, models, start_time, threadVars,
                 callbacks, last_cb, cb, backtestVars, marketVars>>

\* stop(): end_time, cancel_orders() and close_all_positions(cancel_orders=True)
StopCancel ==
  /\ pc = "stop"
  /\ end_time' = At(now)
  /\ stops' = stops + 1
  /\ orders' = {}
  /\ pc' = "stop_clients"
  /\ UNCHANGED <<now, error, tableVars, subscribed, models, start_time, threadVars,
                 callbacks, last_cb, cb, backtestVars, marketVars>>

\* alpaca_data_client.stop() and trading_stream.stop(): the vendors' run()
\* loops return
StopClients ==
  /\ pc = "stop_clients"
  /\ running' = running \ {DataThread, TradeThread}
  /\ pc' = "join"
  /\ UNCHANGED <<now, error, tableVars, subscribed, models, start_time, end_time,
                 threads, mpc, polls_after_end, stops, streamVars, backtestVars,
                 marketVars>>

\* the three join() calls return once every thread has
Join ==
  /\ pc = "join"
  /\ running = {}
  /\ pc' = "done"
  /\ UNCHANGED <<now, error, tableVars, subscribed, models, start_time, end_time,
                 threadVars, stops, streamVars, backtestVars, marketVars>>

\* _account_monitor: the loop test, while self.end_time == None
MonitorTest ==
  /\ MonitorThread \in running /\ mpc = "test"
  /\ IF end_time = None
     THEN mpc' = "sleep" /\ UNCHANGED running
     ELSE mpc' = "returned" /\ running' = running \ {MonitorThread}
  /\ UNCHANGED <<now, pc, error, tableVars, subscribed, models, start_time,
                 end_time, threads, polls_after_end, stops, streamVars,
                 backtestVars, marketVars>>

\* _account_monitor: the sleep to the next minute and get_account()
MonitorPoll ==
  /\ MonitorThread \in running /\ mpc = "sleep"
  /\ mpc' = "test"
  /\ polls_after_end' = IF end_time = None THEN polls_after_end
                        ELSE polls_after_end + 1
  /\ UNCHANGED <<now, pc, error, tableVars, subscribed, models, start_time,
                 end_time, threads, running, stops, streamVars, backtestVars,
                 marketVars>>

Next ==
  \/ Construct
  \/ \E s \in SymbolSet : Train(s)
  \/ \E s \in SymbolSet : Load(s)
  \/ StartClock
  \/ Sleep
  \/ Refill
  \/ Spawn
  \/ OnBar
  \/ BacktestSymbol
  \/ BacktestRow
  \/ BacktestAssess
  \/ WaitLoop
  \/ StopCancel
  \/ StopClients
  \/ Join
  \/ MonitorTest
  \/ MonitorPoll

Spec == Init /\ [][Next]_vars

\* The same program where a thread that can run does run: the main thread goes
\* through stop(), whose broker calls return; the vendor clients' run() loops
\* return once their stop() is called; the monitor's sleep ends and its
\* get_account() returns.
FairSpec ==
  /\ Spec
  /\ WF_vars(StopCancel) /\ WF_vars(StopClients) /\ WF_vars(Join)
  /\ WF_vars(MonitorTest) /\ WF_vars(MonitorPoll)

\* ------------------------------------------------ backtest() on its own
\* The states start() enters backtest() in, after a constructor whose REST
\* responses held up to MaxHistory candles per symbol and with any models
\* installed: the market was open, and the threads have just been started.
KnnStates == {Unfitted} \cup {Fitted(cols, rule) : cols \in {"X", "Xy"}, rule \in KnnRules}

InitBacktest ==
  /\ now = 0 /\ pc = "backtest" /\ error = "none"
  /\ \E resp \in Responses(MaxHistory) :
       /\ fill_rolling_bars(resp, 0).exc = "none"
       /\ fetched = FetchedBy(resp)
       /\ rolling_bars = fill_rolling_bars(resp, 0).total
  /\ filled_rolling_bars = TRUE
  /\ subscribed = {"trade_updates"} \cup SymbolSet
  /\ trading = [s \in SymbolSet |-> FALSE]
  /\ models \in [SymbolSet -> KnnStates]
  /\ start_time = At(0) /\ end_time = None
  /\ threads = StartedThreads /\ running = {t.name : t \in StartedThreads}
  /\ mpc = "test" /\ polls_after_end = 0
  /\ stops = 0 /\ orders = {} /\ callbacks = 0 /\ last_cb = NoCallback
  /\ cb = NoBar
  /\ bt = [NoBacktest EXCEPT !.i = 1, !.phase = "symbol"] /\ bt_log = NoLog
  /\ t_in = PyTime(0, 0) /\ open_result = [called |-> FALSE]
  /\ clk = "open"

\* backtest() alone
NextBacktest ==
  \/ BacktestSymbol
  \/ BacktestRow
  \/ BacktestAssess

SpecBacktest == InitBacktest /\ [][NextBacktest]_vars

\* backtest() with the data stream's callbacks arriving while it runs and after
NextLive ==
  \/ BacktestSymbol
  \/ BacktestRow
  \/ BacktestAssess
  \/ OnBar

SpecLive == InitBacktest /\ [][NextLive]_vars

\* -------------------------------------------- the trading day, to its end
\* backtest(), the wait loop and stop() on the main thread, with the data
\* stream's callbacks and the account monitor on theirs
NextStop ==
  \/ BacktestSymbol
  \/ BacktestRow
  \/ BacktestAssess
  \/ OnBar
  \/ WaitLoop
  \/ StopCancel
  \/ StopClients
  \/ Join
  \/ MonitorTest
  \/ MonitorPoll

\* the day begins as in InitBacktest, with the regressors a client loaded
\* fitted on the columns backtest() passes: with any other, backtest() raises
\* at its first row and the day ends there
InitStop ==
  /\ InitBacktest
  /\ \A s \in SymbolSet : models[s].fit = "Xy"

SpecStop == InitStop /\ [][NextStop]_vars

\* ------------------------------------- _on_bar against the main thread
\* the program from its construction to the wait loop, with _on_bar followed
\* statement by statement on the data stream's thread
NextCallbacks ==
  \/ Construct
  \/ \E s \in SymbolSet : Load(s)
  \/ StartClock
  \/ Sleep
  \/ Refill
  \/ Spawn
  \/ OnBarRead
  \/ OnBarWrite
  \/ BacktestSymbol
  \/ BacktestRow
  \/ BacktestAssess
  \/ WaitLoop

SpecCallbacks == Init /\ [][NextCallbacks]_vars

\* ---------------------------------------------- stream.py, the older revision
\* stream.py holds an earlier AIOTrader: the same constructor and backfill, no
\* models, no trading flags and no account monitor; the feature engineering
\* and the decision are private methods of the class.
PyNone == [type |-> "NoneType"]
PyStr(v) == [type |-> "str", v |-> v]
\* x == "..." in Python, for the values a decision can be
PyEq(x, v) == x.type = "str" /\ x.v = v

\* stream.py _feature_engineer: RSI and log returns are added and dropna drops
\* the rows that lack a full window
stream_feature_engineer(bars) == feature_engineer(bars)

\* stream.py _compute_y: the same y column
stream_compute_y(engineered) == compute_y(engineered)

\* (a variant that decides to buy)
stream_make_decision_Buys(bars) == PyStr("buy")

\* stream.py _make_decision: the body is pass, so the call returns None
stream_make_decision(bars) == PyNone

\* stream.py start() has started its two threads and enters backtest()
StreamThreads ==
  {[name |-> DataThread, target |-> "alpaca_data_client.run"],
   [name |-> TradeThread, target |-> "trading_stream.run"]}

InitStream ==
  /\ now = 0 /\ pc = "backtest" /\ error = "none"
  /\ \E resp \in Responses(MaxHistory) :
       /\ download_stock_data(Symbols, resp, 0, TRUE).exc = "none"
       /\ fetched = FetchedBy(resp)
       /\ rolling_bars = download_stock_data(Symbols, resp, 0, TRUE).total
  /\ filled_rolling_bars = TRUE
  /\ subscribed = {"trade_updates"} \cup SymbolSet
  /\ trading = <<>> /\ models = <<>>
  /\ start_time = None /\ end_time = None
  /\ threads = StreamThreads /\ running = {t.name : t \in StreamThreads}
  /\ mpc = "none" /\ polls_after_end = 0
  /\ stops = 0 /\ orders = {} /\ callbacks = 0 /\ last_cb = NoCallback
  /\ cb = NoBar
  /\ bt = [NoBacktest EXCEPT !.i = 1, !.phase = "symbol"] /\ bt_log = NoLog
  /\ t_in = PyTime(0, 0) /\ open_result = [called |-> FALSE]
  /\ clk = "open"

\* stream.py _on_bar: the bar is appended, the indicators are computed, the
\* decision is taken, and nothing is done with it
StreamOnBar ==
  /\ DataThread \in running
  /\ callbacks < MaxStream
  /\ \E b \in StreamBars :
       /\ b.symbol \in subscribed
       /\ rolling_bars' = Concat(rolling_bars, b)
       /\ LET got == get_bars_for_symbol(rolling_bars', b.symbol)
              engineered == stream_feature_engineer(got.bars)
              decision == stream_make_decision(engineered)
          IN last_cb' = [outcome |-> "decided", b |-> b, decision |-> decision,
                         exc |-> got.exc, order |-> {}]
  /\ callbacks' = callbacks + 1
  /\ UNCHANGED <<now, pc, error, fetched, filled_rolling_bars, subscribed, models,
                 start_time, end_time, threadVars, stops, orders, cb, backtestVars,
                 marketVars>>

\* stream.py backtest(), steps 0 to 2 for the next symbol
StreamBacktestSymbol ==
  /\ pc = "backtest" /\ bt.phase = "symbol"
  /\ LET symbol == Symbols[bt.i]
         got == get_bars_for_symbol(rolling_bars, symbol)
         with_y == stream_compute_y(stream_feature_engineer(got.bars))
     IN IF ~filled_rolling_bars \/ got.exc # "none"
        THEN /\ pc' = "raised"
             /\ error' = IF ~filled_rolling_bars THEN "AssertionError" ELSE got.exc
             /\ UNCHANGED <<bt, bt_log>>
        ELSE /\ bt' = [bt EXCEPT !.phase = "rows", !.cols = with_y.cols,
                                 !.rows = with_y.rows,
                                 !.running_balance = starting_balance,
                                 !.holding_balance = starting_balance,
                                 !.holding_shares = 0]
             /\ bt_log' = [bt_log EXCEPT ![symbol] =
                             [done |-> FALSE, steps |-> <<>>, balance |-> 0]]
             /\ UNCHANGED <<pc, error>>
  /\ UNCHANGED <<now, tableVars, subscribed, trading, models, start_time, end_time,
                 threadVars, stops, streamVars, marketVars>>

\* stream.py backtest(), step 5: the decision compared with "buy" and "sell"
StreamApplyDecision(b, decision, row) ==
  IF PyEq(decision, "buy")
  THEN [b EXCEPT !.running_balance = @ - row.close, !.holding_shares = @ + 1]
  ELSE IF PyEq(decision, "sell")
  THEN [b EXCEPT !.running_balance = @ + row.close, !.holding_shares = @ - 1]
  ELSE b

\* stream.py backtest(), steps 3 to 5 for the next row of with_y
StreamBacktestRow ==
  /\ pc = "backtest" /\ bt.phase = "rows" /\ bt.rows # <<>>
  /\ LET symbol == Symbols[bt.i]
         row == Head(bt.rows)
         decision == stream_make_decision(row)
         applied == StreamApplyDecision(bt, decision, row)
     IN /\ bt' = [applied EXCEPT !.row = row, !.rows = Tail(@),
                                 !.holding_balance = applied.holding_shares * row.close]
        /\ bt_log' = [bt_log EXCEPT ![symbol].steps =
                        Append(@, [decision |-> decision, close |-> row.close])]
  /\ UNCHANGED <<now, pc, error, tableVars, subscribed, trading, models, start_time,
                 end_time, threadVars, stops, streamVars, marketVars>>

\* stream.py backtest(): the rows of the symbol are exhausted; the next symbol,
\* or the return to start() and its wait loop
StreamBacktestNext ==
  /\ pc = "backtest" /\ bt.phase = "rows" /\ bt.rows = <<>>
  /\ bt_log' = [bt_log EXCEPT ![Symbols[bt.i]].done = TRUE,
                              ![Symbols[bt.i]].balance = bt.running_balance]
  /\ bt' = [bt EXCEPT !.phase = IF bt.i = Len(Symbols) THEN "idle" ELSE "symbol",
                      !.i = IF bt.i = Len(Symbols) THEN @ ELSE @ + 1]
  /\ pc' = IF bt.i = Len(Symbols) THEN "wait" ELSE pc
  /\ UNCHANGED <<now, error, tableVars, subscribed, trading, models, start_time,
                 end_time, threadVars, stops, streamVars, marketVars>>

NextStream ==
  \/ StreamOnBar
  \/ StreamBacktestSymbol
  \/ StreamBacktestRow
  \/ StreamBacktestNext

SpecStream == InitStream /\ [][NextStream]_vars

\* ----------------------------------------------------- market_open_at_time
\* a <= b of two times; times and bools do not compare
PyLe(a, b) ==
  IF a.type = "time" /\ b.type = "time" THEN PyBool(a.v <= b.v) ELSE TypeError

\* a | b: defined for two bools, and for no other pair of these types
PyBitOr(a, b) ==
  IF a.type = "bool" /\ b.type = "bool" THEN PyBool(a.v \/ b.v) ELSE TypeError

\* x <= t <= end, the chained comparison, x already evaluated
PyChain(x, t, end) ==
  IF x.type = "TypeError" \/ PyLe(x, t).type = "TypeError" THEN TypeError
  ELSE IF ~PyLe(x, t).v THEN PyBool(FALSE)
  ELSE PyLe(t, end)

\* return (end <= start and (start <= t or t <= end)) | start <= t <= end
\* where | binds tighter than <=: ((...) | start) <= t <= end
market_open_at_time(t) ==
  LET start == PyTime(14, 30)
      end == PyTime(21, 0)
      wraps == PyBool(PyLe(end, start).v /\ (PyLe(start, t).v \/ PyLe(t, end).v))
  IN PyChain(PyBitOr(wraps, start), t, end)

\* the times of day the function is called with, timezone-aware
TimeStep == 10
Times == {[type |-> "time", v |-> k * TimeStep] : k \in 0..((24 * 60 - 1) \div TimeStep)}

InitMarket ==
  /\ now = 0 /\ pc = "new" /\ error = "none"
  /\ fetched = {} /\ rolling_bars = <<>> /\ filled_rolling_bars = FALSE
  /\ subscribed = {} /\ trading = <<>> /\ models = <<>>
  /\ start_time = None /\ end_time = None
  /\ threads = {} /\ running = {} /\ mpc = "none" /\ polls_after_end = 0
  /\ stops = 0 /\ orders = {} /\ callbacks = 0 /\ last_cb = NoCallback
  /\ cb = NoBar
  /\ bt = NoBacktest /\ bt_log = NoLog
  /\ t_in \in Times /\ open_result = [called |-> FALSE]
  /\ clk = "unread"

MarketOpenAtTime ==
  /\ ~open_result.called
  /\ open_result' = [called |-> TRUE, result |-> market_open_at_time(t_in)]
  /\ UNCHANGED <<now, pc, error, tableVars, subscribed, models, start_time,
                 end_time, threadVars, stops, streamVars, backtestVars, t_in, clk>>

SpecMarket == InitMarket /\ [][MarketOpenAtTime]_vars

\* ===================================================================
\* The claims
\* ===================================================================
RowsOf(table) == {table[i] : i \in 1..Len(table)}

\* C1 (as claimed): across every operation, the rows of rolling_bars in one
\* state are rows of every later state; no row is evicted or replaced.
C1_NoRowEverEvicted == [][RowsOf(rolling_bars) \subseteq RowsOf(rolling_bars')]_vars

\* C1 (amended): every operation but the refill of start()'s wait-for-open
\* path keeps every row of rolling_bars; the refill replaces the table by a
\* fresh download.
C1_RowsKeptExceptByRefill ==
  [][pc # "refill" => RowsOf(rolling_bars) \subseteq RowsOf(rolling_bars')]_vars

\* the market was closed, start() slept and refilled, and a callback has
\* appended to the refilled table
C1_Witness == now > 0 /\ callbacks > 0 /\ Len(rolling_bars) > 1

\* C2: every _on_bar callback appends exactly one row, indexed by the bar's
\* timestamp and symbol and carrying its open, high, low, close and volume,
\* and leaves every earlier row as it was, whatever the rest of the callback
\* does.
C2_CallbackAppendsItsBar ==
  [][callbacks' # callbacks =>
       /\ Len(rolling_bars') = Len(rolling_bars) + 1
       /\ \A i \in 1..Len(rolling_bars) : rolling_bars'[i] = rolling_bars[i]
       /\ LET r == rolling_bars'[Len(rolling_bars')]
              b == last_cb'.b
          IN /\ r.timestamp = b.timestamp /\ r.symbol = b.symbol
             /\ r.open = b.open /\ r.high = b.high /\ r.low = b.low
             /\ r.close = b.close /\ r.volume = b.volume]_vars

\* a callback for a symbol whose trading is enabled has raised after appending
C2_Witness ==
  /\ last_cb.outcome = "raised"
  /\ trading[last_cb.b.symbol]
  /\ rolling_bars[Len(rolling_bars)].timestamp = last_cb.b.timestamp

\* C3 (as claimed): rolling_bars holds at most one row per (timestamp, symbol).
C3_OneRowPerKey ==
  \A i, j \in 1..Len(rolling_bars) :
    (rolling_bars[i].timestamp = rolling_bars[j].timestamp
     /\ rolling_bars[i].symbol = rolling_bars[j].symbol) => i = j

\* C4 (as claimed): every decision make_decision returns, to backtest() and to
\* _on_bar, is one of 1, -1 and 0, a value that is a key of SIDE_CONVERTER when
\* it is not 0.
IsBuySellHold(decision) ==
  /\ decision.exc = "none"
  /\ decision.sum \in {n_neighbors, -n_neighbors, 0}
  /\ decision.sum # 0 => SIDE_CONVERTER(decision).exc = "none"

C4_DecisionIsBuySellHold ==
  /\ \A s \in SymbolSet : \A k \in 1..Len(bt_log[s].steps) :
       IsBuySellHold(bt_log[s].steps[k].decision)
  /\ error \notin {"NotFittedError", "ValueError"}
  /\ last_cb.outcome \in {"hold", "order", "raised"} => IsBuySellHold(last_cb.decision)

\* the closes of the steps whose decision is v (1 buy, -1 sell), summed
RECURSIVE SumCloses(_, _)
SumCloses(steps, v) ==
  IF steps = <<>> THEN 0
  ELSE (IF Head(steps).decision.sum = v * n_neighbors THEN Head(steps).close ELSE 0)
       + SumCloses(Tail(steps), v)

CountOf(steps, v) ==
  Cardinality({k \in 1..Len(steps) : steps[k].decision.sum = v * n_neighbors})

\* C5: while backtest() iterates over a symbol's rows, running_balance is
\* 10000 less the closes of the bars it bought at plus the closes of the bars
\* it sold at, and holding_shares is the buys less the sells.
C5_BalanceFollowsDecisions ==
  bt.phase = "rows" =>
    LET steps == bt_log[Symbols[bt.i]].steps
    IN /\ bt.running_balance
            = starting_balance - SumCloses(steps, 1) + SumCloses(steps, -1)
       /\ bt.holding_shares = CountOf(steps, 1) - CountOf(steps, -1)

\* backtest() has bought a share and sold a share of the symbol it is at
C5_Witness ==
  /\ bt.phase = "rows"
  /\ CountOf(bt_log[Symbols[bt.i]].steps, 1) > 0
  /\ CountOf(bt_log[Symbols[bt.i]].steps, -1) > 0

\* the balance the claim gives a symbol once its rows are done
ExpectedFinal(steps) ==
  starting_balance - SumCloses(steps, 1) + SumCloses(steps, -1)
  + (IF steps = <<>> THEN 0
     ELSE (CountOf(steps, 1) - CountOf(steps, -1)) * steps[Len(steps)].close)

\* C6: once a symbol is assessed, its ending balance is the running balance
\* plus the shares held at the last bar's close, and trading[symbol] is TRUE
\* exactly when that balance over 10000 is above 1.03; when backtest() has
\* returned, every symbol is assessed.
C6_TradingIffRoiAboveMin ==
  /\ \A s \in SymbolSet :
       bt_log[s].done =>
         /\ bt_log[s].balance = ExpectedFinal(bt_log[s].steps)
         /\ trading[s] <=> (100 * ExpectedFinal(bt_log[s].steps)
                              > MIN_ROI_PCT * starting_balance)
  /\ pc = "wait" => \A s \in SymbolSet : bt_log[s].done

\* backtest() has returned with trading enabled for one symbol and, at a roi
\* of exactly 1.03, not for the other
C6_Witness ==
  /\ pc = "wait"
  /\ \E s, u \in SymbolSet :
       /\ trading[s] /\ ~trading[u]
       /\ 100 * bt_log[u].balance = MIN_ROI_PCT * starting_balance

VendorRunLoops == {"alpaca_data_client.run", "trading_stream.run"}

\* C7 (as claimed): every thread start() creates has a vendor client's run()
\* as its target.
C7_ThreadsRunVendorLoops == \A t \in threads : t.target \in VendorRunLoops

\* C7 (amended): start() creates three threads; two run the vendor clients'
\* run() loops and return only once stop() has stopped the clients, the third
\* runs the program's own _account_monitor loop and returns only once stop()
\* has set end_time.
C7_TwoVendorLoopsAndMonitor ==
  /\ \A t \in threads :
       /\ t.target \in VendorRunLoops \cup {"_account_monitor"}
       /\ t.target = "_account_monitor" <=> t.name = MonitorThread
  /\ running \subseteq {t.name : t \in threads}
  /\ (threads # {} /\ MonitorThread \notin running) => end_time # None
  /\ (threads # {} /\ {DataThread, TradeThread} \ running # {})
       => pc \in {"join", "done"}

\* stop() has joined the three threads
C7_Witness == pc = "done" /\ Cardinality(threads) = 3 /\ running = {}

\* C8: when the request for any symbol fails, the download raises and no table
\* is kept from it; in the constructor, nothing is subscribed then and no
\* thread is ever started.
C8_FailedBackfillRaises ==
  (pc # "new" /\ fetched # SymbolSet) =>
    /\ pc = "raised"
    /\ threads = {} /\ running = {}
    /\ ~filled_rolling_bars => (subscribed = {} /\ rolling_bars = <<>>)

\* the constructor's download was answered for A and failed for B
C8_Witness == pc = "raised" /\ ~filled_rolling_bars /\ fetched = {"A"}

\* C9 (as claimed): market_open_at_time(t) returns, without raising, whether
\* 14:30 <= t <= 21:00 UTC.
C9_ReturnsWhetherOpen ==
  open_result.called =>
    open_result.result = PyBool(14 * 60 + 30 <= t_in.v /\ t_in.v <= 21 * 60)

\* what backtest() decides for the latest bar of a symbol: make_decision on
\* that bar's row of with_y
BacktestDecision(table, symbol) ==
  LET with_y == compute_y(feature_engineer(get_bars_for_symbol(table, symbol).bars))
  IN make_decision(models[symbol], RowFrame(with_y.cols, with_y.rows[Len(with_y.rows)]))

\* C10 (as claimed): the decision _on_bar computes for a bar is the decision
\* backtest() computes for that bar.
C10_LiveDecisionIsBacktestDecision ==
  [][(callbacks' # callbacks /\ last_cb'.outcome # "skipped"
      /\ feature_engineer(get_bars_for_symbol(rolling_bars', last_cb'.b.symbol).bars).rows # <<>>)
       => last_cb'.decision = BacktestDecision(rolling_bars', last_cb'.b.symbol)]_vars

C13_NoOrderUnlessTrading ==
  [][/\ \A s \in SymbolSet : ~bt_log[s].done => ~trading[s]
     /\ \A o \in orders' \ orders : trading[o.symbol]
     /\ (callbacks' # callbacks /\ ~trading[last_cb'.b.symbol]) =>
          /\ last_cb'.outcome = "skipped"
          /\ last_cb'.order = {} /\ orders' = orders
          /\ rolling_bars' = Append(rolling_bars, LatestBar(last_cb'.b))
          /\ UNCHANGED <<pc, error, trading, models, bt, bt_log, running>>]_vars

\* backtest() has returned with trading enabled for one symbol and not for
\* another; the bar that arrived was of the symbol it is not enabled for
C13_Witness ==
  /\ pc = "wait"
  /\ last_cb.outcome = "skipped"
  /\ bt_log[last_cb.b.symbol].done /\ ~trading[last_cb.b.symbol]
  /\ \E s \in SymbolSet : trading[s]
  /\ \E i \in 1..Len(rolling_bars) :
       /\ rolling_bars[i].timestamp = last_cb.b.timestamp
       /\ rolling_bars[i].symbol = last_cb.b.symbol
  /\ orders = {}

\* C12: when the broker clock says the market is closed, start() sleeps, then
\* refills rolling_bars, and only then starts its threads and enters
\* backtest(); no thread runs and no backtest has begun while it sleeps or
\* refills, and a refill that raises starts none. When the clock says the
\* market is open, the threads are started on the table as it was.
C12_SleepsRefillsThenStarts ==
  [][/\ pc \in {"sleep", "refill"} =>
          (clk = "closed" /\ threads = {} /\ running = {} /\ bt = NoBacktest
           /\ start_time = None /\ callbacks = 0)
     /\ pc = "sleep" =>
          (pc' = "refill" /\ now' > now /\ UNCHANGED <<rolling_bars, threads, bt>>)
     /\ pc = "refill" =>
          /\ pc' \in {"spawn", "raised"}
          /\ UNCHANGED <<threads, running, bt, now>>
          /\ pc' = "spawn" =>
               /\ filled_rolling_bars' /\ fetched' = SymbolSet
               /\ \A i \in 1..Len(rolling_bars') :
                    rolling_bars'[i].timestamp \in (now - MaxCandles + 1)..now
     /\ (pc' = "spawn" /\ pc # "spawn") =>
          \/ clk' = "open" /\ pc = "ready" /\ UNCHANGED <<rolling_bars, now>>
          \/ clk' = "closed" /\ pc = "refill"
     /\ (threads' # threads \/ (bt = NoBacktest /\ bt' # NoBacktest)) =>
          (pc = "spawn" /\ pc' = "backtest" /\ threads = {}
           /\ threads' = StartedThreads /\ UNCHANGED rolling_bars)]_vars

\* the clock said closed, start() slept and refilled, and the threads run
C12_Witness ==
  /\ clk = "closed" /\ now > 0
  /\ pc = "backtest" /\ threads = StartedThreads
  /\ rolling_bars # <<>>
  /\ \A i \in 1..Len(rolling_bars) : rolling_bars[i].timestamp > 0

\* C14: once the threads are started, under every interleaving of the
\* statements of _on_bar with backtest() and the wait loop, every step keeps
\* every row of rolling_bars in its place, the table holds one row more for
\* each callback completed, the frame a callback is about to bind is never
\* built from a table older than the current one, and backtest() takes a
\* symbol's rows from the table as it then is.
C14_NoBarLost ==
  [][threads # {} =>
       /\ Len(rolling_bars') >= Len(rolling_bars)
       /\ \A i \in 1..Len(rolling_bars) : rolling_bars'[i] = rolling_bars[i]
       /\ Len(rolling_bars') - callbacks' = Len(rolling_bars) - callbacks
       /\ cb # NoBar => cb.concat = Append(rolling_bars, LatestBar(cb.b))
       /\ (bt.phase = "symbol" /\ bt'.phase = "rows") =>
            LET n == Len(SelectSeq(rolling_bars, LAMBDA r : r.symbol = Symbols[bt.i]))
            IN Len(bt'.rows) = IF n > WarmupRows THEN n - WarmupRows ELSE 0]_vars

\* two callbacks, of different symbols, have completed, backtest() has taken
\* a decision on a row that a callback appended, and the main thread is in
\* the wait loop
C14_Witness ==
  /\ pc = "wait" /\ callbacks = 2
  /\ Len(rolling_bars) >= 2
  /\ rolling_bars[Len(rolling_bars)].symbol # rolling_bars[Len(rolling_bars) - 1].symbol
  /\ \E s \in SymbolSet : bt_log[s].steps # <<>>

\* C15: once stop() is called it returns, with the three threads joined;
\* end_time is set before any join, and the account monitor calls get_account
\* at most once after end_time is set.
C15_StopReturns ==
  /\ (pc = "stop") ~> (pc = "done" /\ running = {})
  /\ [](pc \in {"stop_clients", "join", "done"} => end_time # None)
  /\ [](polls_after_end <= 1)

\* stop() has returned, and the monitor had one more get_account() after
\* end_time was set
C15_Witness ==
  /\ pc = "done" /\ running = {} /\ stops = 1
  /\ mpc = "returned" /\ polls_after_end = 1

\* C16 (as claimed): stop() is called at most once, and whenever start() has
\* started its threads and has exited, by returning or by an exception, stop()
\* has been called exactly once.
C16_StopCalledOnceOnExit ==
  /\ stops <= 1
  /\ (threads # {} /\ pc \in {"done", "raised"}) => stops = 1

\* C17: in the stream.py revision the decision is None, so while backtest()
\* iterates over a symbol's rows running_balance stays 10000 and
\* holding_shares stays 0, no order is ever submitted, and an _on_bar callback
\* appends its bar to rolling_bars and changes nothing else of the program.
C17_StubNeverTrades ==
  [][/\ bt.phase = "rows" =>
          (bt.running_balance = starting_balance /\ bt.holding_shares = 0)
     /\ \A s \in SymbolSet : \A k \in 1..Len(bt_log[s].steps) :
          bt_log[s].steps[k].decision = PyNone
     /\ \A s \in SymbolSet : bt_log[s].done => bt_log[s].balance = starting_balance
     /\ orders = {}
     /\ callbacks' # callbacks =>
          /\ last_cb'.decision = PyNone /\ last_cb'.exc = "none"
          /\ rolling_bars' = Append(rolling_bars, LatestBar(last_cb'.b))
          /\ UNCHANGED <<orders, pc, error, bt, bt_log, threads, running,
                         filled_rolling_bars, subscribed>>]_vars

\* backtest() has gone through rows of both symbols, rising and falling, and
\* a bar has arrived
C17_Witness ==
  /\ pc = "wait" /\ last_cb.outcome = "decided"
  /\ \A s \in SymbolSet :
       /\ Len(bt_log[s].steps) >= 2
       /\ bt_log[s].steps[1].close # bt_log[s].steps[2].close

====
